---------------------------- MODULE Spec2Model ----------------------------
(***************************************************************************)
(* State-machine model of the ChatTwelve request pipeline (deterministic   *)
(* path of ChatService.process_chat, settings.USE_AI_AGENT = False): the   *)
(* SQLite session store with its rate-limit counter, the TTL cache with    *)
(* stale fallback, the upstream tool call and the turn context.            *)
(*                                                                         *)
(* Every `await` of the Python code that touches the store or the upstream *)
(* is one atomic step of a request handler task; handler tasks interleave  *)
(* at these steps, as asyncio coroutines do.  Time is the integer clock    *)
(* `now` (datetime.utcnow()), advanced by Tick.                            *)
(***************************************************************************)
EXTENDS Integers, Sequences, FiniteSets, TLC

(***************************************************************************)
(* Settings (src/src/core/config.py).  Settings is a pydantic BaseSettings *)
(* class: every value is read from the environment, the numbers in the     *)
(* file are defaults.  The model is checked under a configuration with     *)
(* small values, all durations expressed in ticks of the model clock, that *)
(* keeps the order of the defaults:                                        *)
(*   CACHE_TTL_PRICE < RATE_LIMIT_WINDOW_SECONDS < SESSION_TIMEOUT.        *)
(***************************************************************************)
RATE_LIMIT_REQUESTS == 2

RATE_LIMIT_WINDOW_SECONDS == 2

SESSION_TIMEOUT_MINUTES == 3

\* the interval of the clean-up sweep, in ticks (no code reads this setting)
SESSION_CLEANUP_INTERVAL_MINUTES == 1

CACHE_TTL_PRICE == 1

CACHE_TTL_HISTORICAL == 2

CACHE_TTL_INDICATOR == 3

\* new_context = current_context[-9:] + [context_entry]
CONTEXT_KEEP == 9

(***************************************************************************)
(* Bounds of the model.                                                    *)
(***************************************************************************)
\* the clock stops at MaxTime
MaxTime == 3

\* number of process_chat calls started in a run with one handler task
MaxRequests == 4

\* number of process_chat calls started in a run with concurrent handler tasks
MaxConcurrentRequests == 2

\* direct CacheRepository calls in a run of RepositorySpec
MaxRepoCalls == 3

\* prompts ever created in one run of the prompt repository
MaxPrompts == 3

\* concurrent request-handler tasks
Procs == {"h1", "h2"}

\* session ids handed out by uuid4 (each is created at most once)
SessionIds == {"s1"}

Null == "null"

(***************************************************************************)
(* Session rows (table sessions) and the Session dataclass.                *)
(***************************************************************************)
NoSession ==
  [present |-> FALSE, created_at |-> 0, last_activity |-> 0, context |-> <<>>,
   request_count |-> 0, request_window_start |-> 0]

\* a create that leaves last_activity at the clock's origin
new_session_without_activity(t) ==
  [present |-> TRUE, created_at |-> t, last_activity |-> 0, context |-> <<>>,
   request_count |-> 0, request_window_start |-> t]

\* SessionRepository.create: the row inserted at time t
NewSession(t) ==
  [present |-> TRUE, created_at |-> t, last_activity |-> t, context |-> <<>>,
   request_count |-> 0, request_window_start |-> t]

\* is_expired with an exclusive boundary
is_expired_exclusive(session, t) ==
  (t - session.last_activity) > SESSION_TIMEOUT_MINUTES

\* SessionRepository.is_expired, evaluated at clock value t
is_expired(session, t) ==
  (t - session.last_activity) >= SESSION_TIMEOUT_MINUTES

\* get that checks expiry whatever check_expiry says
session_get_always_checks(row, check_expiry, t) ==
  IF ~row.present THEN NoSession
  ELSE IF is_expired(row, t) THEN NoSession
  ELSE row

\* SessionRepository.get(session_id, check_expiry): the row read at clock
\* value t, or NoSession (None) when missing or, with check_expiry, expired
session_get(row, check_expiry, t) ==
  IF ~row.present THEN NoSession
  ELSE IF check_expiry /\ is_expired(row, t) THEN NoSession
  ELSE row


(***************************************************************************)
(* Query interpreter (src/src/services/query_processor.py).  A query text  *)
(* is represented by what the matchers of the interpreter find in it:      *)
(* which phrase class occurs (for historical: a phrase, or the pattern     *)
(* "last N days/weeks/months/hours", field last_n), the symbols            *)
(* _extract_symbols returns, the indicator phrase, the currencies, and     *)
(* whether a follow-up pattern matches.                                    *)
(***************************************************************************)
\* What the two patterns of _extract_outputsize capture in a text: last_n by
\* `last\s*(\d+)\s*(?:days?|weeks?|candles?|points?|bars?)`, n_of by
\* `(\d+)\s*(?:days?|...)\s*of`; NoMatch when the pattern does not match.
\* re.search(pattern, query) is None
NoMatch == 0 - 1

\* min(int(match.group(1)), 5000)  # Cap at 5000
MAX_OUTPUTSIZE == 5000

\* outputsize=outputsize or 30
DEFAULT_OUTPUTSIZE == 30

\* a bug: the captured number is returned as it is
extract_outputsize_uncapped(text) ==
  IF text.last_n # NoMatch THEN text.last_n
  ELSE IF text.n_of # NoMatch THEN text.n_of
  ELSE NoMatch

\* QueryProcessor._extract_outputsize: the first pattern that matches wins
extract_outputsize(text) ==
  IF text.last_n # NoMatch
  THEN (IF text.last_n < MAX_OUTPUTSIZE THEN text.last_n ELSE MAX_OUTPUTSIZE)
  ELSE IF text.n_of # NoMatch
  THEN (IF text.n_of < MAX_OUTPUTSIZE THEN text.n_of ELSE MAX_OUTPUTSIZE)
  ELSE NoMatch

\* outputsize or 30: None and 0 are falsy
outputsize_or_default(outputsize) ==
  IF outputsize = NoMatch \/ outputsize = 0 THEN DEFAULT_OUTPUTSIZE ELSE outputsize

\* a text without a number of data points
NoSizes == [last_n |-> NoMatch, n_of |-> NoMatch]

Query(text, conversion, indicator, historical, quote, symbols, followup, from_currency, to_currency) ==
  [text |-> text, commodities |-> FALSE, conversion |-> conversion,
   indicator |-> indicator, historical |-> historical, last_n |-> FALSE,
   quote |-> quote, comparison |-> FALSE, symbols |-> symbols, followup |-> followup,
   from_currency |-> from_currency, to_currency |-> to_currency, sizes |-> NoSizes]

\* "price of AAPL"
QPrice == Query("price of AAPL", FALSE, Null, FALSE, FALSE, <<"AAPL">>, FALSE, Null, Null)

\* "tell me a joke"
QJoke == Query("tell me a joke", FALSE, Null, FALSE, FALSE, <<>>, FALSE, Null, Null)

\* "what about that quote": no symbol of its own (every word is in
\* EXCLUDED_WORDS), follow-up pattern matches
QFollowUp == Query("what about that quote", FALSE, Null, FALSE, TRUE, <<>>, TRUE, Null, Null)

\* "AAPL history"
QHistorical == Query("AAPL history", FALSE, Null, TRUE, FALSE, <<"AAPL">>, FALSE, Null, Null)

\* "rsi of AAPL"
QIndicator == Query("rsi of AAPL", FALSE, "rsi", FALSE, FALSE, <<"AAPL">>, FALSE, Null, Null)

\* "convert 100 usd to eur"
QConversion == Query("convert 100 usd to eur", TRUE, Null, FALSE, FALSE, <<>>, FALSE, "USD", "EUR")

\* "convert 100 dollars"
QConversionOne == Query("convert 100 dollars", TRUE, Null, FALSE, FALSE, <<>>, FALSE, "USD", Null)

\* "list commodities"
QCommodities ==
  [Query("list commodities", FALSE, Null, FALSE, FALSE, <<>>, FALSE, Null, Null)
     EXCEPT !.commodities = TRUE]

Queries ==
  {QPrice, QJoke, QFollowUp, QHistorical, QIndicator, QConversion, QConversionOne,
   QCommodities}

\* The load of one run of the service: the queries its clients send, the
\* handler tasks that serve them, and whether the run starts on an empty
\* store or on a session that has been in use.  Every run is checked under
\* one of these: two concurrent handlers on price queries, or one handler on
\* a query mix.
Workload(queries, tasks, requests, established) ==
  [queries |-> queries, tasks |-> tasks, requests |-> requests,
   established |-> established]

Workloads ==
  { Workload({QPrice}, {"h1", "h2"}, MaxConcurrentRequests, FALSE),
    Workload({QPrice, QFollowUp, QJoke}, {"h1"}, MaxRequests, FALSE),
    Workload({QHistorical, QConversionOne}, {"h1"}, MaxRequests, FALSE),
    Workload({QIndicator, QConversion}, {"h1"}, MaxRequests, FALSE),
    Workload({QCommodities}, {"h1"}, MaxRequests, FALSE),
    Workload({QPrice}, {"h1"}, MaxRequests, TRUE) }

\* a classifier that tests the quote phrases before the historical ones
detect_intent_quote_first(q) ==
  IF q.commodities THEN "commodities_list"
  ELSE IF q.conversion THEN "conversion"
  ELSE IF q.indicator # Null THEN "indicator"
  ELSE IF q.quote THEN "quote"
  ELSE IF q.historical \/ q.last_n THEN "historical"
  ELSE IF q.comparison THEN "comparison"
  ELSE "price"

\* QueryProcessor._detect_intent: first match wins
detect_intent(q) ==
  IF q.commodities THEN "commodities_list"
  ELSE IF q.conversion THEN "conversion"
  ELSE IF q.indicator # Null THEN "indicator"
  ELSE IF q.historical \/ q.last_n THEN "historical"
  ELSE IF q.quote THEN "quote"
  ELSE IF q.comparison THEN "comparison"
  ELSE "price"

\* the newest entry of context[1..n] with a non-empty symbols list
RECURSIVE newest_symbols(_, _)
newest_symbols(context, n) ==
  IF n = 0 THEN <<>>
  ELSE IF context[n].symbols # <<>> THEN context[n].symbols
  ELSE newest_symbols(context, n - 1)

\* a resolution that skips the follow-up test
extract_symbols_without_pattern(q, context) == newest_symbols(context, Len(context))

\* QueryProcessor._extract_symbols_from_context
extract_symbols_from_context(q, context) ==
  IF ~q.followup THEN <<>> ELSE newest_symbols(context, Len(context))

\* QueryProcessor.parse
parse(q, context) ==
  [intent |-> detect_intent(q),
   symbols |-> IF q.symbols = <<>> /\ context # <<>>
               THEN extract_symbols_from_context(q, context)
               ELSE q.symbols,
   interval |-> "1day",
   indicator |-> q.indicator,
   time_period |-> 14,
   outputsize |-> outputsize_or_default(extract_outputsize(q.sizes)),
   from_currency |-> q.from_currency,
   to_currency |-> q.to_currency,
   raw_query |-> q.text]

NoParsed ==
  [intent |-> Null, symbols |-> <<>>, interval |-> Null, indicator |-> Null,
   time_period |-> 0, outputsize |-> 0, from_currency |-> Null,
   to_currency |-> Null, raw_query |-> Null]

(***************************************************************************)
(* Upstream payloads.  A payload is the dict the upstream returns; `close` *)
(* is the numeric field as the upstream sends it (a string), `values` the  *)
(* candle list.  "N/A" is a value float() cannot parse.  stale and         *)
(* cached_at are the keys "_stale" and "_cached_at" of the dict (FALSE, 0: *)
(* the dict does not have them).                                           *)
(***************************************************************************)
Payload(s) ==
  [close |-> s, values |-> << [close |-> s] >>, stale |-> FALSE, cached_at |-> 0]

Payloads == {Payload("101"), Payload("N/A")}

NoPayload == [close |-> Null, values |-> <<>>, stale |-> FALSE, cached_at |-> 0]

\* ChatService.KNOWN_COMMODITIES, the built-in list (its first entry stands
\* for the whole list)
KNOWN_COMMODITIES ==
  [close |-> Null, values |-> << [close |-> "XAU/USD"] >>, stale |-> FALSE, cached_at |-> 0]

\* MCPToolResult.error of a failed call
UpstreamErrors == {"upstream timeout"}

\* MCPToolResult of a failed and of a successful call
McpFailure(error) == [success |-> FALSE, data |-> NoPayload, error |-> error]

McpSuccess(data) == [success |-> TRUE, data |-> data, error |-> Null]

\* float(x): defined on the numeric strings, raises ValueError otherwise
CanFloat(s) == s \in {"101"}

FloatOf(s) == IF s = "101" THEN 101 ELSE 0

(***************************************************************************)
(* Cache (src/src/database/cache_repo.py).                                 *)
(***************************************************************************)
NoCacheRow ==
  [present |-> FALSE, response_data |-> NoPayload, created_at |-> 0, ttl_seconds |-> 0]

\* A params dict is the sequence of its <<key, value>> items in insertion
\* order.  ParamKeyOrder: the keys the handlers use, in the order sort_keys
\* puts them.
ParamKeyOrder == <<"indicator", "interval", "outputsize", "symbol", "time_period", "type">>

\* json.dumps(params, sort_keys=True): the items ordered by key
sort_keys(params) ==
  LET HasKey(k) == \E i \in 1..Len(params) : params[i][1] = k
      keys == SelectSeq(ParamKeyOrder, HasKey)
      value(k) == params[CHOOSE i \in 1..Len(params) : params[i][1] = k][2]
  IN [i \in 1..Len(keys) |-> <<keys[i], value(keys[i])>>]

\* a key built from the items in insertion order
generate_cache_key_unsorted(query_type, params) == <<query_type, params>>

\* CacheRepository._generate_cache_key: sha256 of
\* f"{query_type}:{json.dumps(params, sort_keys=True)}", represented by the
\* pair it hashes (the hash is taken to be injective)
generate_cache_key(query_type, params) == <<query_type, sort_keys(params)>>

\* CacheRepository._get_ttl
get_ttl(query_type) ==
  IF query_type = "price" THEN CACHE_TTL_PRICE
  ELSE IF query_type \in {"historical", "indicator"} THEN CACHE_TTL_HISTORICAL
  ELSE CACHE_TTL_PRICE

\* the WHERE clause of the non-stale SELECT:
\* datetime(created_at, '+ttl seconds') > datetime('now')
sql_fresh(row, t) == row.created_at + row.ttl_seconds > t

\* an is_stale test with the comparison inverted
py_is_stale_inverted(row, t) == (t - row.created_at) < row.ttl_seconds

\* is_stale = (utcnow() - created_at).total_seconds() > ttl
py_is_stale(row, t) == (t - row.created_at) > row.ttl_seconds

NoCached == [hit |-> FALSE, data |-> NoPayload, stale |-> FALSE, cached_at |-> 0]

\* a get that selects the row whatever allow_stale says
cache_get_any_row(row, allow_stale, t) ==
  IF ~row.present THEN NoCached
  ELSE [hit |-> TRUE, data |-> row.response_data,
        stale |-> py_is_stale(row, t),
        cached_at |-> IF py_is_stale(row, t) THEN row.created_at ELSE 0]

\* CacheRepository.get at clock value t: None (NoCached), or the payload with
\* the _stale / _cached_at annotation when is_stale
cache_get(row, allow_stale, t) ==
  IF ~row.present THEN NoCached
  ELSE IF ~allow_stale /\ ~sql_fresh(row, t) THEN NoCached
  ELSE [hit |-> TRUE, data |-> row.response_data,
        stale |-> py_is_stale(row, t),
        cached_at |-> IF py_is_stale(row, t) THEN row.created_at ELSE 0]

\* the dict object CacheRepository.get returns: the payload of the row, with
\* data["_stale"] = True and data["_cached_at"] = created_at when is_stale
returned_dict(cached) ==
  [cached.data EXCEPT !.stale = cached.stale, !.cached_at = cached.cached_at]

\* CacheRepository.set: the row INSERT OR REPLACE writes at clock value t
cache_row(query_type, response_data, t) ==
  [present |-> TRUE, response_data |-> response_data, created_at |-> t,
   ttl_seconds |-> get_ttl(query_type)]

\* INSERT OR IGNORE: an existing row is kept
cache_insert_or_ignore(table, key, row) ==
  IF table[key].present THEN table ELSE [table EXCEPT ![key] = row]

\* INSERT OR REPLACE INTO cache: one row per key, the new row replaces
cache_upsert(table, key, row) == [table EXCEPT ![key] = row]

\* the handler process_chat dispatches to
\* (_handle_price_query, _handle_quote_query, _handle_historical_query,
\*  _handle_indicator_query, _handle_conversion_query,
\*  _handle_commodities_list); comparison and unknown go to the price handler
handler_of(parsed) ==
  IF parsed.intent \in {"quote", "historical", "indicator", "conversion",
                        "commodities_list"}
  THEN parsed.intent ELSE "price"

\* the query_type each handler passes to the cache
cache_type(handler) == IF handler = "commodities_list" THEN "commodities" ELSE handler

\* the cache_params dict each handler builds
cache_params(parsed) ==
  LET symbol == parsed.symbols[1] IN
  CASE handler_of(parsed) = "historical" ->
         << <<"symbol", symbol>>, <<"interval", parsed.interval>>,
            <<"outputsize", parsed.outputsize>> >>
    [] handler_of(parsed) = "indicator" ->
         << <<"symbol", symbol>>, <<"indicator", parsed.indicator>>,
            <<"interval", parsed.interval>>, <<"time_period", parsed.time_period>> >>
    [] handler_of(parsed) = "commodities_list" -> << <<"type", "commodities_list">> >>
    [] OTHER -> << <<"symbol", symbol>> >>

\* the tool and the arguments of the mcp_client call each handler makes
\* (response_format is "json" in every call)
upstream_call(parsed) ==
  CASE handler_of(parsed) = "price" ->
         [tool |-> "twelvedata_get_price",
          arguments |-> << <<"symbol", parsed.symbols[1]>> >>]
    [] handler_of(parsed) = "quote" ->
         [tool |-> "twelvedata_get_quote",
          arguments |-> << <<"symbol", parsed.symbols[1]>> >>]
    [] handler_of(parsed) = "historical" ->
         [tool |-> "twelvedata_get_time_series",
          arguments |-> << <<"symbol", parsed.symbols[1]>>, <<"interval", parsed.interval>>,
                           <<"outputsize", parsed.outputsize>> >>]
    [] handler_of(parsed) = "indicator" ->
         [tool |-> "twelvedata_technical_indicator",
          arguments |-> << <<"symbol", parsed.symbols[1]>>, <<"indicator", parsed.indicator>>,
                           <<"interval", parsed.interval>>,
                           <<"time_period", parsed.time_period>>,
                           <<"outputsize", parsed.outputsize>> >>]
    [] handler_of(parsed) = "commodities_list" ->
         [tool |-> "twelvedata_list_commodities", arguments |-> <<>>]
    [] OTHER ->
         [tool |-> "twelvedata_convert_currency",
          arguments |-> << <<"from", parsed.from_currency>>, <<"to", parsed.to_currency>> >>]

cache_key(parsed) ==
  generate_cache_key(cache_type(handler_of(parsed)), cache_params(parsed))

\* every key a query of Queries can produce
CacheKeys ==
  { generate_cache_key("price", << <<"symbol", "AAPL">> >>),
    generate_cache_key("quote", << <<"symbol", "AAPL">> >>),
    generate_cache_key("historical", << <<"symbol", "AAPL">>, <<"interval", "1day">>,
                                        <<"outputsize", 30>> >>),
    generate_cache_key("indicator", << <<"symbol", "AAPL">>, <<"indicator", "rsi">>,
                                       <<"interval", "1day">>, <<"time_period", 14>> >>),
    generate_cache_key("commodities", << <<"type", "commodities_list">> >>) }

(***************************************************************************)
(* Response formatting (ChatService._format_*_response).  A formatter      *)
(* either returns the response data or raises (float() of a value it       *)
(* cannot parse); process_chat turns the exception into PROCESSING_ERROR.  *)
(***************************************************************************)
NoData == [symbol |-> Null, num |-> 0, candles |-> <<>>, values |-> <<>>]

\* for v in values: float(v.get("close", 0)) succeeds for every candle
CandlesFloat(values) == \A i \in 1..Len(values) : CanFloat(values[i].close)

\* whether the formatter of the handler raises on this payload
format_raises(handler, data) ==
  CASE handler \in {"price", "quote"} -> ~CanFloat(data.close)
    [] handler = "historical" -> ~CandlesFloat(data.values)
    [] OTHER -> FALSE

\* the `data` facet of the response
format_data(handler, parsed, data) ==
  CASE handler \in {"price", "quote"} ->
         [symbol |-> parsed.symbols[1], num |-> FloatOf(data.close),
          candles |-> <<>>, values |-> <<>>]
    [] handler = "historical" ->
         [symbol |-> parsed.symbols[1], num |-> 0,
          candles |-> [i \in 1..Len(data.values) |-> FloatOf(data.values[i].close)],
          values |-> <<>>]
    [] handler = "indicator" ->
         [symbol |-> parsed.symbols[1], num |-> parsed.time_period,
          candles |-> <<>>, values |-> data.values]
    [] handler = "commodities_list" ->
         [symbol |-> Null, num |-> 0, candles |-> <<>>, values |-> data.values]
    [] OTHER ->
         [symbol |-> parsed.from_currency, num |-> 0, candles |-> <<>>, values |-> <<>>]

\* ChatResponse / ErrorResponse; stale_marker: the answer begins with the
\* stale-data warning.  retry_after_seconds, requests_made, requests_limit:
\* the fields of the RateLimitError schema, Null in an envelope that does
\* not have them (ErrorResponse has answer, error and cached_data only).
NoResponse ==
  [kind |-> "none", code |-> Null, message |-> Null, type |-> Null,
   stale_marker |-> FALSE, data |-> NoData,
   retry_after_seconds |-> Null, requests_made |-> Null, requests_limit |-> Null]

\* ErrorResponse with a fixed message
ErrorResponse(code) ==
  [kind |-> "error", code |-> code, message |-> Null, type |-> Null,
   stale_marker |-> FALSE, data |-> NoData,
   retry_after_seconds |-> Null, requests_made |-> Null, requests_limit |-> Null]

\* ErrorResponse(error=ErrorDetail(code="MCP_ERROR", message=result.error))
McpErrorResponse(error) == [ErrorResponse("MCP_ERROR") EXCEPT !.message = error]

ChatResponse(type, data, stale_marker) ==
  [kind |-> "success", code |-> Null, message |-> Null, type |-> type,
   stale_marker |-> stale_marker, data |-> data,
   retry_after_seconds |-> Null, requests_made |-> Null, requests_limit |-> Null]

\* the `type` of the ChatResponse each handler builds
response_type(handler) == IF handler = "commodities_list" THEN "quote" ELSE handler

NoResult == [success |-> FALSE, data |-> NoPayload, error |-> Null]

(***************************************************************************)
(* State.                                                                  *)
(***************************************************************************)
VARIABLES
  now,       \* datetime.utcnow()
  sessions,  \* table sessions: SessionIds -> row
  cache,     \* table cache: CacheKeys -> row
  task,      \* the request each handler task is running, with its locals
  started,   \* number of process_chat calls started
  workload,  \* the queries clients send in this run
  hist,      \* history of each session: what has been done to its row
  probe      \* the last direct call of CacheRepository (RepositorySpec only)

vars == <<now, sessions, cache, task, started, workload, hist, probe>>

IdleTask ==
  [pc |-> "idle", session_id |-> Null, query |-> QJoke,
   session |-> NoSession,          \* process_chat: session
   inc_session |-> NoSession,      \* increment_request_count: session
   inc_now |-> 0,                  \* increment_request_count: now
   new_count |-> 0, new_window_start |-> 0,
   counted |-> FALSE,              \* increment_request_count returned
   count |-> 0, seconds_until_reset |-> 0,
   parsed |-> NoParsed, result |-> NoResult, response |-> NoResponse,
   \* history of this request
   get_present |-> FALSE, get_age |-> 0,
   raw_checked |-> FALSE, raw_present |-> FALSE, raw_age |-> 0,
   inc_reset |-> FALSE,            \* the increment found the window run out
   inc_failed |-> FALSE,           \* increment_request_count raised
   upstream_ok |-> FALSE,          \* the upstream call succeeded
   upstream_error |-> Null,        \* the error of the failed upstream call
   cache_reads |-> 0, cache_writes |-> 0, upstream_calls |-> 0,
   session_writes |-> 0, context_writes |-> 0,
   stale_row |-> NoCacheRow,       \* the row the stale read found
   stale_entry |-> FALSE]          \* ... was present and no longer fresh

\* created: the id has been handed out; calls: increment_request_count calls
\* completed; resets: one of them reset the window; turns: update_context
\* calls completed; limited: a request was answered RATE_LIMITED
NoHist ==
  [created |-> FALSE, calls |-> 0, resets |-> FALSE, turns |-> 0, limited |-> FALSE]

\* the queries of the turns an established session has recorded, oldest first
PriorQueries ==
  <<"price of MSFT", "MSFT quote", "MSFT history", "price of TSLA", "TSLA quote",
    "TSLA history", "price of GOOG", "GOOG quote", "GOOG history">>

\* the context entry _update_session_context stored for the i-th of them
PriorTurn(i) ==
  [query |-> PriorQueries[i], symbols |-> <<"AAPL">>, intent |-> "price",
   indicator |-> Null, interval |-> "1day"]

\* The row of a session that has been in use: its requests came at the rate
\* the limit allows (RATE_LIMIT_REQUESTS per window), each recorded a turn,
\* and the last of them, at clock value 0, opened a new window.
EstablishedSession ==
  [present |-> TRUE,
   created_at |-> 0 - RATE_LIMIT_WINDOW_SECONDS * Len(PriorQueries),
   last_activity |-> 0,
   context |-> [i \in 1..Len(PriorQueries) |-> PriorTurn(i)],
   request_count |-> 1, request_window_start |-> 0]

\* ... and its history
EstablishedHist ==
  [created |-> TRUE, calls |-> Len(PriorQueries), resets |-> TRUE,
   turns |-> Len(PriorQueries), limited |-> FALSE]

\* no direct call of CacheRepository yet
NoProbe ==
  [op |-> "none", query_type |-> Null, params |-> <<>>, allow_stale |-> FALSE,
   result |-> NoCached, calls |-> 0,
   set_type |-> Null, set_params |-> <<>>, set_data |-> NoPayload, set_at |-> 0]

Init ==
  /\ probe = NoProbe
  /\ now = 0
  /\ workload \in Workloads
  /\ sessions = [s \in SessionIds |->
                  IF workload.established THEN EstablishedSession ELSE NoSession]
  /\ cache = [k \in CacheKeys |-> NoCacheRow]
  /\ task = [p \in Procs |-> IdleTask]
  /\ started = 0
  /\ hist = [s \in SessionIds |->
              IF workload.established THEN EstablishedHist ELSE NoHist]

\* the clock advances
Tick ==
  /\ now < MaxTime
  /\ now' = now + 1
  /\ UNCHANGED <<probe, sessions, cache, task, started, workload, hist>>

\* POST /api/session: SessionRepository.create (a fresh uuid4)
CreateSession(s) ==
  /\ ~hist[s].created
  /\ sessions' = [sessions EXCEPT ![s] = NewSession(now)]
  /\ hist' = [hist EXCEPT ![s].created = TRUE]
  /\ UNCHANGED <<probe, now, cache, task, started, workload>>

\* DELETE /api/session/{id}: SessionRepository.delete
DeleteSession(s) ==
  /\ sessions[s].present
  /\ sessions' = [sessions EXCEPT ![s] = NoSession]
  /\ UNCHANGED <<probe, now, cache, task, started, workload, hist>>

(***************************************************************************)
(* ChatService.process_chat, one action per awaited store or upstream      *)
(* operation.                                                              *)
(***************************************************************************)
Set(p, t) == task' = [task EXCEPT ![p] = t]

\* process_chat returns: the locals of the call are gone, the response and
\* the history of the request stay until the task takes its next request
Return(t) ==
  [t EXCEPT !.pc = "done", !.session = NoSession, !.inc_session = NoSession,
            !.inc_now = 0, !.new_count = 0, !.new_window_start = 0,
            !.result = NoResult]

\* process_chat returns (None, ErrorResponse(code))
ReturnError(t, code) == Return([t EXCEPT !.response = ErrorResponse(code)])

\* a process_chat that records the turn of every response
return_response_always_records(t, response) ==
  [t EXCEPT !.response = response, !.pc = "update_context"]

\* a handler has produced `response`: process_chat records the turn when
\* `response and parsed.symbols`, then returns it
ReturnResponse(t, response) ==
  IF t.parsed.symbols # <<>>
  THEN [t EXCEPT !.response = response, !.pc = "update_context"]
  ELSE Return([t EXCEPT !.response = response])

\* the handler formats `data`; a formatter that raises ends in the
\* `except Exception` of process_chat
FormatAndReturn(t, data, stale_marker) ==
  LET handler == handler_of(t.parsed) IN
  IF format_raises(handler, data)
  THEN ReturnError(t, "PROCESSING_ERROR")
  ELSE ReturnResponse(t, ChatResponse(response_type(handler),
                                      format_data(handler, t.parsed, data),
                                      stale_marker))

\* a client sends POST /api/chat
StartChat(p) ==
  /\ task[p].pc \in {"idle", "done"}
  /\ started < workload.requests
  /\ p \in workload.tasks
  \* handler tasks are interchangeable: "h2" takes a request only while
  \* "h1" is busy with one
  /\ p = "h2" => task["h1"].pc \notin {"idle", "done"}
  /\ \E s \in SessionIds, q \in workload.queries :
       Set(p, [IdleTask EXCEPT !.pc = "get", !.session_id = s, !.query = q])
  /\ started' = started + 1
  /\ UNCHANGED <<probe, now, sessions, cache, workload, hist>>

\* session = await self.session_repo.get(session_id, check_expiry=True)
GetSession(p) ==
  LET t == task[p]
      row == sessions[t.session_id]
      session == session_get(row, TRUE, now)
  IN /\ t.pc = "get"
     /\ Set(p, [t EXCEPT !.session = session,
                         !.get_present = row.present,
                         !.get_age = IF row.present THEN now - row.last_activity ELSE 0,
                         !.pc = IF session.present THEN "inc_get" ELSE "get_raw"])
     /\ UNCHANGED <<probe, now, sessions, cache, started, workload, hist>>

\* session_raw = await self.session_repo.get(session_id, check_expiry=False)
\* and the choice between SESSION_EXPIRED and SESSION_NOT_FOUND
GetSessionRaw(p) ==
  LET t == task[p]
      row == sessions[t.session_id]
      session_raw == session_get(row, FALSE, now)
      code == IF session_raw.present /\ is_expired(session_raw, now)
              THEN "SESSION_EXPIRED" ELSE "SESSION_NOT_FOUND"
  IN /\ t.pc = "get_raw"
     /\ Set(p, ReturnError([t EXCEPT !.raw_checked = TRUE,
                                     !.raw_present = row.present,
                                     !.raw_age = IF row.present
                                                 THEN now - row.last_activity ELSE 0],
                           code))
     /\ UNCHANGED <<probe, now, sessions, cache, started, workload, hist>>

\* a conversion test that looks at the source currency only
missing_entity_source_only(parsed) ==
  LET handler == handler_of(parsed) IN
  IF handler = "conversion"
  THEN IF parsed.from_currency = Null THEN "MISSING_CURRENCIES" ELSE Null
  ELSE IF handler = "commodities_list" THEN Null
  ELSE IF parsed.symbols = <<>> THEN "NO_SYMBOL"
  ELSE IF handler = "indicator" /\ parsed.indicator = Null THEN "NO_INDICATOR"
  ELSE Null

\* the required-entity test at the head of each handler: the error code, or Null
missing_entity(parsed) ==
  LET handler == handler_of(parsed) IN
  IF handler = "conversion"
  THEN IF parsed.from_currency = Null \/ parsed.to_currency = Null
       THEN "MISSING_CURRENCIES" ELSE Null
  ELSE IF handler = "commodities_list" THEN Null
  ELSE IF parsed.symbols = <<>> THEN "NO_SYMBOL"
  ELSE IF handler = "indicator" /\ parsed.indicator = Null THEN "NO_INDICATOR"
  ELSE Null

\* parsed = self.query_processor.parse(query, context=session.context), the
\* dispatch on parsed.intent and the handler's required-entity test: the
\* synchronous code between the rate-limit check and the handler's first await
Dispatch(t) ==
  LET parsed == parse(t.query, t.session.context)
      t1 == [t EXCEPT !.parsed = parsed]
  IN IF missing_entity(parsed) # Null
     THEN ReturnError(t1, missing_entity(parsed))
     ELSE [t1 EXCEPT !.pc = IF handler_of(parsed) = "conversion"
                            THEN "mcp" ELSE "cache_get"]

\* increment_request_count: session = await self.get(session_id); a missing
\* or expired row raises ValueError, which process_chat logs and ignores
\* (`except Exception` around the rate-limit check): the request goes on
IncrementGet(p) ==
  LET t == task[p]
      session == session_get(sessions[t.session_id], TRUE, now)
  IN /\ t.pc = "inc_get"
     /\ Set(p, IF session.present
               THEN [t EXCEPT !.inc_session = session, !.pc = "inc_now"]
               ELSE Dispatch([t EXCEPT !.inc_failed = TRUE]))
     /\ UNCHANGED <<probe, now, sessions, cache, started, workload, hist>>

\* a window test with an exclusive boundary
window_expired_exclusive(t, window_start) == t - window_start > RATE_LIMIT_WINDOW_SECONDS

\* the window has run out for a session read with this window start
window_expired(t, window_start) == t - window_start >= RATE_LIMIT_WINDOW_SECONDS

\* a counter that adds two
new_count_by_two(session, t) ==
  IF window_expired(t, session.request_window_start) THEN 1
  ELSE session.request_count + 2

\* increment_request_count: new_count
new_count_of(session, t) ==
  IF window_expired(t, session.request_window_start) THEN 1
  ELSE session.request_count + 1

\* increment_request_count: new_window_start
new_window_start_of(session, t) ==
  IF window_expired(t, session.request_window_start) THEN t
  ELSE session.request_window_start

\* increment_request_count: now = datetime.utcnow() and the new counter values
IncrementNow(p) ==
  LET t == task[p] IN
  /\ t.pc = "inc_now"
  /\ Set(p, [t EXCEPT !.inc_now = now,
                      !.new_count = new_count_of(t.inc_session, now),
                      !.new_window_start = new_window_start_of(t.inc_session, now),
                      !.inc_reset = window_expired(now, t.inc_session.request_window_start),
                      !.pc = "inc_write"])
     /\ UNCHANGED <<probe, now, sessions, cache, started, workload, hist>>

\* seconds until reset counted from the clock's origin, not the window start
seconds_until_reset_from_origin(t, window_start) ==
  LET left == RATE_LIMIT_WINDOW_SECONDS - t
  IN IF left > 0 THEN left ELSE 0

\* seconds_until_reset = max(0, RATE_LIMIT_WINDOW_SECONDS - int(time_in_window))
seconds_until_reset_of(t, window_start) ==
  LET left == RATE_LIMIT_WINDOW_SECONDS - (t - window_start)
  IN IF left > 0 THEN left ELSE 0

\* a test that rejects the request that reaches the limit
rate_limited_at_limit(count) == count >= RATE_LIMIT_REQUESTS

\* the caller's test: count > settings.RATE_LIMIT_REQUESTS
rate_limited(count) == count > RATE_LIMIT_REQUESTS

\* increment_request_count: the UPDATE of request_count, request_window_start
\* and last_activity, the return, and the rate-limit test of process_chat
IncrementWrite(p) ==
  LET t == task[p]
      s == t.session_id
      row == sessions[s]
      t1 == [t EXCEPT !.counted = TRUE, !.count = t.new_count,
                      !.seconds_until_reset =
                         seconds_until_reset_of(t.inc_now, t.new_window_start),
                      !.session_writes = IF row.present THEN @ + 1 ELSE @]
  IN /\ t.pc = "inc_write"
     /\ sessions' = IF row.present
                    THEN [sessions EXCEPT ![s] =
                            [row EXCEPT !.request_count = t.new_count,
                                        !.request_window_start = t.new_window_start,
                                        !.last_activity = t.inc_now]]
                    ELSE sessions
     /\ hist' = [hist EXCEPT ![s].calls = @ + 1,
                             ![s].resets = @ \/ t.inc_reset,
                             ![s].limited = @ \/ rate_limited(t.new_count)]
     /\ Set(p, IF rate_limited(t.new_count)
               THEN ReturnError(t1, "RATE_LIMITED")
               ELSE Dispatch(t1))
     /\ UNCHANGED <<probe, now, cache, started, workload>>

\* cached = await self.cache_repo.get(type, cache_params);
\* if cached and not cached.get("_stale"): return the formatted entry
CacheGet(p) ==
  LET t == task[p]
      cached == cache_get(cache[cache_key(t.parsed)], FALSE, now)
      t1 == [t EXCEPT !.cache_reads = @ + 1]
  IN /\ t.pc = "cache_get"
     /\ Set(p, IF cached.hit /\ ~cached.stale
               THEN FormatAndReturn(t1, cached.data, FALSE)
               ELSE [t1 EXCEPT !.pc = "mcp"])
     /\ UNCHANGED <<probe, now, sessions, cache, started, workload, hist>>

\* result = await self.mcp_client.<tool>(...): the upstream answers with a
\* payload or fails; the conversion handler has no cache
McpCall(p) ==
  LET t == task[p] IN
  /\ t.pc = "mcp"
  /\ \E result \in {McpFailure(e) : e \in UpstreamErrors}
                     \cup {McpSuccess(d) : d \in Payloads} :
       LET t1 == [t EXCEPT !.result = result, !.upstream_calls = @ + 1,
                           !.upstream_ok = result.success,
                           !.upstream_error = result.error] IN
       Set(p, IF handler_of(t.parsed) = "conversion"
              THEN IF result.success
                   THEN FormatAndReturn(t1, result.data, FALSE)
                   ELSE Return([t1 EXCEPT !.response = McpErrorResponse(result.error)])
              ELSE [t1 EXCEPT !.pc = IF result.success THEN "cache_set" ELSE "stale_get"])
  /\ UNCHANGED <<probe, now, sessions, cache, started, workload, hist>>

\* await self.cache_repo.set(type, cache_params, result.data), then format
CacheSet(p) ==
  LET t == task[p]
      t1 == [t EXCEPT !.cache_writes = @ + 1]
  IN /\ t.pc = "cache_set"
     /\ cache' = cache_upsert(cache, cache_key(t.parsed),
                              cache_row(cache_type(handler_of(t.parsed)),
                                        t.result.data, now))
     /\ Set(p, FormatAndReturn(t1, t.result.data, FALSE))
     /\ UNCHANGED <<probe, now, sessions, started, workload, hist>>

\* a stale read that found nothing calls the upstream again
stale_miss_retries(t) == [t EXCEPT !.pc = "mcp"]

\* a stale read that found nothing always answers MCP_ERROR
stale_miss_always_error(t) ==
  Return([t EXCEPT !.response = McpErrorResponse(t.result.error)])

\* the stale read found nothing: MCP_ERROR with the upstream's message; the
\* commodities handler instead answers with the built-in list
stale_miss_response(t) ==
  IF handler_of(t.parsed) = "commodities_list"
  THEN ReturnResponse(t, ChatResponse(response_type("commodities_list"),
                                      format_data("commodities_list", t.parsed,
                                                  KNOWN_COMMODITIES),
                                      FALSE))
  ELSE Return([t EXCEPT !.response = McpErrorResponse(t.result.error)])

\* a stale fallback that stores the dict it serves again
StaleGet_stores_entry(p) ==
  LET t == task[p]
      row == cache[cache_key(t.parsed)]
      cached == cache_get(row, TRUE, now)
      t1 == [t EXCEPT !.cache_reads = @ + 1, !.stale_row = row,
                      !.stale_entry = row.present /\ ~sql_fresh(row, now)]
  IN /\ t.pc = "stale_get"
     /\ Set(p, IF cached.hit
               THEN FormatAndReturn(t1, cached.data, TRUE)
               ELSE stale_miss_response(t1))
     /\ cache' = IF cached.hit
                 THEN cache_upsert(cache, cache_key(t.parsed),
                                   cache_row(cache_type(handler_of(t.parsed)),
                                             returned_dict(cached), now))
                 ELSE cache
     /\ UNCHANGED <<probe, now, sessions, started, workload, hist>>

\* upstream failed: cached = await self.cache_repo.get(..., allow_stale=True);
\* an entry is served with the warning marker, none gives MCP_ERROR
StaleGet(p) ==
  LET t == task[p]
      row == cache[cache_key(t.parsed)]
      cached == cache_get(row, TRUE, now)
      t1 == [t EXCEPT !.cache_reads = @ + 1, !.stale_row = row,
                      !.stale_entry = row.present /\ ~sql_fresh(row, now)]
  IN /\ t.pc = "stale_get"
     /\ Set(p, IF cached.hit
               THEN FormatAndReturn(t1, cached.data, TRUE)
               ELSE stale_miss_response(t1))
     /\ UNCHANGED <<probe, now, sessions, cache, started, workload, hist>>

\* current_context[-10:]
last_entries_one_more(context) ==
  IF Len(context) <= CONTEXT_KEEP + 1 THEN context
  ELSE SubSeq(context, Len(context) - CONTEXT_KEEP, Len(context))

\* current_context[-9:]
last_entries(context) ==
  IF Len(context) <= CONTEXT_KEEP THEN context
  ELSE SubSeq(context, Len(context) - CONTEXT_KEEP + 1, Len(context))

\* _update_session_context: the entry of this turn (its "timestamp" field,
\* which no code reads back, is left out)
context_entry(parsed) ==
  [query |-> parsed.raw_query, symbols |-> parsed.symbols, intent |-> parsed.intent,
   indicator |-> parsed.indicator, interval |-> parsed.interval]

\* _update_session_context: new_context = current_context[-9:] + [context_entry]
new_context(current_context, parsed) ==
  Append(last_entries(current_context), context_entry(parsed))

\* await self._update_session_context(session_id, session.context, parsed):
\* SessionRepository.update_context writes the context and last_activity
UpdateContext(p) ==
  LET t == task[p]
      s == t.session_id
      row == sessions[s]
  IN /\ t.pc = "update_context"
     /\ sessions' = IF row.present
                    THEN [sessions EXCEPT ![s] =
                            [row EXCEPT !.context = new_context(t.session.context, t.parsed),
                                        !.last_activity = now]]
                    ELSE sessions
     /\ hist' = [hist EXCEPT ![s].turns = IF row.present THEN @ + 1 ELSE @]
     /\ Set(p, Return([t EXCEPT !.context_writes = IF row.present THEN @ + 1 ELSE @]))
     /\ UNCHANGED <<probe, now, cache, started, workload>>

Next ==
  \/ Tick
  \/ \E s \in SessionIds : CreateSession(s) \/ DeleteSession(s)
  \/ \E p \in Procs :
       \/ StartChat(p)
       \/ GetSession(p)
       \/ GetSessionRaw(p)
       \/ IncrementGet(p)
       \/ IncrementNow(p)
       \/ IncrementWrite(p)
       \/ CacheGet(p)
       \/ McpCall(p)
       \/ CacheSet(p)
       \/ StaleGet(p)
       \/ UpdateContext(p)

Spec == Init /\ [][Next]_vars

(***************************************************************************)
(* CacheRepository on its own: a caller that calls set and get with any    *)
(* query type and any params dict, in any key order.                       *)
(***************************************************************************)
RepoTypes == {"price", "historical"}

\* params dicts: the first two hold the same items in different key order
RepoParams ==
  { << <<"symbol", "AAPL">>, <<"interval", "1day">> >>,
    << <<"interval", "1day">>, <<"symbol", "AAPL">> >>,
    << <<"symbol", "AAPL">>, <<"interval", "1h">> >> }

RepoKeys == {generate_cache_key(ty, pa) : ty \in RepoTypes, pa \in RepoParams}

RepoInit ==
  /\ probe = NoProbe
  /\ now = 0
  /\ sessions = [s \in SessionIds |-> NoSession]
  /\ cache = [k \in RepoKeys |-> NoCacheRow]
  /\ task = [p \in Procs |-> IdleTask]
  /\ started = 0
  /\ workload = Workload({}, {}, 0, FALSE)
  /\ hist = [s \in SessionIds |-> NoHist]

\* await cache_repo.set(query_type, params, response_data)
RepoSet(query_type, params, response_data) ==
  /\ probe.calls < MaxRepoCalls
  /\ cache' = cache_upsert(cache, generate_cache_key(query_type, params),
                           cache_row(query_type, response_data, now))
  /\ probe' = [probe EXCEPT !.op = "set", !.query_type = query_type,
                            !.params = params, !.allow_stale = FALSE,
                            !.result = NoCached, !.calls = @ + 1,
                            !.set_type = query_type, !.set_params = params,
                            !.set_data = response_data, !.set_at = now]
  /\ UNCHANGED <<now, sessions, task, started, workload, hist>>

\* await cache_repo.get(query_type, params, allow_stale)
RepoGet(query_type, params, allow_stale) ==
  /\ probe.calls < MaxRepoCalls
  /\ probe' = [probe EXCEPT !.op = "get", !.query_type = query_type,
                            !.params = params, !.allow_stale = allow_stale,
                            !.result = cache_get(cache[generate_cache_key(query_type, params)],
                                                 allow_stale, now),
                            !.calls = @ + 1]
  /\ UNCHANGED <<now, sessions, cache, task, started, workload, hist>>

\* DELETE FROM cache
\* WHERE datetime(created_at, '+' || ttl_seconds || ' seconds') < datetime('now')
cleanup_expired_cache(table, t) ==
  [k \in DOMAIN table |->
     IF table[k].present /\ table[k].created_at + table[k].ttl_seconds < t
     THEN NoCacheRow ELSE table[k]]

\* await cleanup_expired_cache(): one run of the sweep
RepoCleanup ==
  /\ probe.calls < MaxRepoCalls
  /\ cache' = cleanup_expired_cache(cache, now)
  /\ probe' = [probe EXCEPT !.op = "cleanup", !.query_type = Null, !.params = <<>>,
                            !.allow_stale = FALSE, !.result = NoCached,
                            !.calls = @ + 1]
  /\ UNCHANGED <<now, sessions, task, started, workload, hist>>

RepoNext ==
  \/ Tick
  \/ \E ty \in RepoTypes, pa \in RepoParams, d \in Payloads : RepoSet(ty, pa, d)
  \/ \E ty \in RepoTypes, pa \in RepoParams, a \in BOOLEAN : RepoGet(ty, pa, a)
  \/ RepoCleanup

RepositorySpec == RepoInit /\ [][RepoNext]_vars

(***************************************************************************)
(* QueryProcessor on its own: parse called with any query and any context. *)
(***************************************************************************)
\* the queries, by what the matchers find in them
InterpQueries ==
  { [text |-> "query", commodities |-> c, conversion |-> v, indicator |-> i,
     historical |-> h, last_n |-> n, quote |-> u, comparison |-> m,
     symbols |-> s, followup |-> f, from_currency |-> Null, to_currency |-> Null,
     sizes |-> NoSizes] :
      c \in BOOLEAN, v \in BOOLEAN, i \in {Null, "rsi"}, h \in BOOLEAN,
      n \in BOOLEAN, u \in BOOLEAN, m \in BOOLEAN,
      s \in {<<>>, <<"AAPL">>}, f \in BOOLEAN }

\* a context entry of an earlier turn with these symbols
InterpTurn(symbols) ==
  [query |-> "earlier", symbols |-> symbols, intent |-> "price",
   indicator |-> Null, interval |-> "1day"]

\* the contexts, oldest entry first
InterpContexts ==
  { <<>>,
    << InterpTurn(<<"MSFT">>) >>,
    << InterpTurn(<<>>) >>,
    << InterpTurn(<<"MSFT">>), InterpTurn(<<"TSLA">>) >>,
    << InterpTurn(<<"MSFT">>), InterpTurn(<<>>) >>,
    << InterpTurn(<<>>), InterpTurn(<<"TSLA">>) >>,
    << InterpTurn(<<>>), InterpTurn(<<>>) >> }

\* a caller about to call parse(query, context)
InterpCall(query, context) ==
  [op |-> "call", query |-> query, context |-> context, parsed |-> NoParsed]

InterpInit ==
  /\ probe \in {InterpCall(q, c) : q \in InterpQueries, c \in InterpContexts}
  /\ now = 0
  /\ sessions = [s \in SessionIds |-> NoSession]
  /\ cache = [k \in CacheKeys |-> NoCacheRow]
  /\ task = [p \in Procs |-> IdleTask]
  /\ started = 0
  /\ workload = Workload({}, {}, 0, FALSE)
  /\ hist = [s \in SessionIds |-> NoHist]

\* parsed = query_processor.parse(query, context)
Interpret ==
  /\ probe.op = "call"
  /\ probe' = [probe EXCEPT !.op = "parse",
                             !.parsed = parse(probe.query, probe.context)]
  /\ UNCHANGED <<now, sessions, cache, task, started, workload, hist>>

InterpNext == Interpret

InterpreterSpec == InterpInit /\ [][InterpNext]_vars

(***************************************************************************)
(* QueryProcessor._extract_symbols on its own.  A text is represented by   *)
(* what the matchers of the phases find in it: the symbols of the metal,   *)
(* crypto and company names, the known forex pairs, the uppercase words of *)
(* 2 to 5 letters (re.findall(r'\b[A-Z]{2,5}\b', query_upper)), whether a   *)
(* financial intent phrase occurs, and the matches of the explicit pair    *)
(* regex.                                                                  *)
(***************************************************************************)
\* QueryProcessor.COMMON_STOCKS and EXCLUDED_WORDS, the members the texts use
COMMON_STOCKS == {"AAPL", "MSFT"}

EXCLUDED_WORDS == {"USD", "EUR", "RSI"}

\* the words and explicit pairs of the texts: "AAPL", "XYZ", "XPD/EUR",
\* "XYZ and XPD/EUR", "USD/SEK", "EUR/USD" (a known forex pair), and no word
SymWords ==
  { [words |-> <<>>, forex |-> <<>>, pairs |-> <<>>],
    [words |-> <<"AAPL">>, forex |-> <<>>, pairs |-> <<>>],
    [words |-> <<"XYZ">>, forex |-> <<>>, pairs |-> <<>>],
    [words |-> <<"XPD", "EUR">>, forex |-> <<>>, pairs |-> <<"XPD/EUR">>],
    [words |-> <<"XYZ", "XPD", "EUR">>, forex |-> <<>>, pairs |-> <<"XPD/EUR">>],
    [words |-> <<"USD", "SEK">>, forex |-> <<>>, pairs |-> <<"USD/SEK">>],
    [words |-> <<"EUR", "USD">>, forex |-> <<"EUR/USD">>, pairs |-> <<"EUR/USD">>] }

SymTexts ==
  { [metals |-> m, crypto |-> c, names |-> n, forex |-> w.forex, words |-> w.words,
     financial_intent |-> f, pairs |-> w.pairs] :
      m \in {<<>>, <<"XAU/USD">>}, c \in {<<>>, <<"BTC/USD">>},
      n \in {<<>>, <<"AAPL">>}, f \in BOOLEAN, w \in SymWords }

\* `if symbol not in symbols: symbols.append(symbol)` for each symbol found
RECURSIVE append_unique(_, _)
append_unique(symbols, found) ==
  IF found = <<>> THEN symbols
  ELSE append_unique(IF \E i \in 1..Len(symbols) : symbols[i] = Head(found)
                     THEN symbols ELSE Append(symbols, Head(found)),
                     Tail(found))

\* QueryProcessor._extract_symbols: the names, the known forex pairs and the
\* known tickers; then, when nothing has been found and a financial intent
\* phrase occurs, the first word not excluded; then the explicit pairs
extract_symbols(text) ==
  LET IsTicker(w) == w \in COMMON_STOCKS /\ w \notin EXCLUDED_WORDS
      NotExcluded(w) == w \notin EXCLUDED_WORDS
      named == append_unique(append_unique(append_unique(<<>>, text.metals),
                                           text.crypto), text.names)
      known == append_unique(append_unique(named, text.forex),
                             SelectSeq(text.words, IsTicker))
      candidates == SelectSeq(text.words, NotExcluded)
      fallback == IF known = <<>> /\ text.financial_intent /\ candidates # <<>>
                  THEN <<candidates[1]>> ELSE known
  IN append_unique(fallback, text.pairs)

\* a caller about to call _extract_symbols(query)
SymCall(text) == [op |-> "call", text |-> text, symbols |-> <<>>]

SymInit ==
  /\ probe \in {SymCall(x) : x \in SymTexts}
  /\ now = 0
  /\ sessions = [s \in SessionIds |-> NoSession]
  /\ cache = [k \in CacheKeys |-> NoCacheRow]
  /\ task = [p \in Procs |-> IdleTask]
  /\ started = 0
  /\ workload = Workload({}, {}, 0, FALSE)
  /\ hist = [s \in SessionIds |-> NoHist]

\* symbols = self._extract_symbols(query)
ExtractSymbols ==
  /\ probe.op = "call"
  /\ probe' = [probe EXCEPT !.op = "symbols", !.symbols = extract_symbols(probe.text)]
  /\ UNCHANGED <<now, sessions, cache, task, started, workload, hist>>

SymNext == ExtractSymbols

SymbolSpec == SymInit /\ [][SymNext]_vars

(***************************************************************************)
(* QueryProcessor._extract_outputsize and the default of parse, on their   *)
(* own.  A text is represented by what the two patterns find in it: the    *)
(* number captured by `last\s*(\d+)\s*(?:days?|...)`, and the number       *)
(* captured by `(\d+)\s*(?:days?|...)\s*of` (NoMatch: the pattern does not *)
(* match).  \d+ captures no sign, so a captured number is never negative.  *)
(***************************************************************************)
\* the numbers a text asks for
RequestedSizes ==
  {0, 1, 2, DEFAULT_OUTPUTSIZE - 1, DEFAULT_OUTPUTSIZE, DEFAULT_OUTPUTSIZE + 1,
   MAX_OUTPUTSIZE - 1, MAX_OUTPUTSIZE, MAX_OUTPUTSIZE + 1, MAX_OUTPUTSIZE * 2}

SizeTexts ==
  [last_n : {NoMatch} \cup RequestedSizes, n_of : {NoMatch} \cup RequestedSizes]

SizeCall(text) == [op |-> "call", text |-> text, outputsize |-> NoMatch]

SizeInit ==
  /\ probe \in {SizeCall(x) : x \in SizeTexts}
  /\ now = 0
  /\ sessions = [s \in SessionIds |-> NoSession]
  /\ cache = [k \in CacheKeys |-> NoCacheRow]
  /\ task = [p \in Procs |-> IdleTask]
  /\ started = 0
  /\ workload = Workload({}, {}, 0, FALSE)
  /\ hist = [s \in SessionIds |-> NoHist]

\* outputsize = self._extract_outputsize(query_lower); ParsedQuery(outputsize=outputsize or 30)
ParseOutputsize ==
  /\ probe.op = "call"
  /\ probe' = [probe EXCEPT !.op = "outputsize",
                             !.outputsize = outputsize_or_default(extract_outputsize(probe.text))]
  /\ UNCHANGED <<now, sessions, cache, task, started, workload, hist>>

SizeNext == ParseOutputsize

OutputsizeSpec == SizeInit /\ [][SizeNext]_vars

(***************************************************************************)
(* The cache slot and the upstream call of the caching handlers, for two   *)
(* requests side by side: each query is parsed, and its handler computes   *)
(* the cache key it reads and writes and the call it makes on a miss.      *)
(***************************************************************************)
\* "<text> last n candles" ("candles" is not a unit of the time-period patterns)
LastCandles(q, n) == [q EXCEPT !.sizes = [last_n |-> n, n_of |-> NoMatch]]

SlotQueries ==
  { QPrice,
    Query("price of MSFT", FALSE, Null, FALSE, FALSE, <<"MSFT">>, FALSE, Null, Null),
    Query("AAPL quote", FALSE, Null, FALSE, TRUE, <<"AAPL">>, FALSE, Null, Null),
    QHistorical,
    LastCandles(Query("AAPL last 50 candles", FALSE, Null, TRUE, FALSE, <<"AAPL">>, FALSE, Null, Null), 50),
    LastCandles(Query("AAPL last 60 candles", FALSE, Null, TRUE, FALSE, <<"AAPL">>, FALSE, Null, Null), 60),
    QIndicator,
    LastCandles(Query("rsi of AAPL last 50 candles", FALSE, "rsi", TRUE, FALSE, <<"AAPL">>, FALSE, Null, Null), 50),
    LastCandles(Query("rsi of AAPL last 60 candles", FALSE, "rsi", TRUE, FALSE, <<"AAPL">>, FALSE, Null, Null), 60),
    Query("sma of AAPL", FALSE, "sma", FALSE, FALSE, <<"AAPL">>, FALSE, Null, Null),
    Query("rsi of MSFT", FALSE, "rsi", FALSE, FALSE, <<"MSFT">>, FALSE, Null, Null),
    QCommodities }

NoSlot == [parsed |-> NoParsed, query_type |-> Null, key |-> <<>>,
           call |-> [tool |-> Null, arguments |-> <<>>]]

\* what the handler of a query computes before its cache read
slot_of(q) ==
  LET parsed == parse(q, <<>>) IN
  [parsed |-> parsed, query_type |-> cache_type(handler_of(parsed)),
   key |-> cache_key(parsed), call |-> upstream_call(parsed)]

SlotCall(first, second) ==
  [op |-> "call", first |-> first, second |-> second,
   first_slot |-> NoSlot, second_slot |-> NoSlot]

SlotInit ==
  /\ probe \in {SlotCall(x, y) : x \in SlotQueries, y \in SlotQueries}
  /\ now = 0
  /\ sessions = [s \in SessionIds |-> NoSession]
  /\ cache = [k \in CacheKeys |-> NoCacheRow]
  /\ task = [p \in Procs |-> IdleTask]
  /\ started = 0
  /\ workload = Workload({}, {}, 0, FALSE)
  /\ hist = [s \in SessionIds |-> NoHist]

\* the two requests reach their handlers
HandlePair ==
  /\ probe.op = "call"
  /\ probe' = [probe EXCEPT !.op = "handled",
                             !.first_slot = slot_of(probe.first),
                             !.second_slot = slot_of(probe.second)]
  /\ UNCHANGED <<now, sessions, cache, task, started, workload, hist>>

SlotNext == HandlePair

SlotSpec == SlotInit /\ [][SlotNext]_vars

(***************************************************************************)
(* PromptRepository (src/src/database/prompt_repo.py) called directly.     *)
(* The table system_prompts is a function from the ids handed out so far   *)
(* to rows; a row has the user_id of its scope (Null: a system default),   *)
(* its name (UNIQUE in the table) and is_active.  Every operation runs its *)
(* statements on one connection and commits at the end; a statement that   *)
(* raises leaves the operation without commit, so nothing of it is kept.   *)
(***************************************************************************)
PromptIds == 1..MaxPrompts

UserIds == {Null, "u1", "u2"}

PromptNames == {"default", "scalper", "swing"}

NoPrompt == [present |-> FALSE, user_id |-> Null, name |-> Null, is_active |-> FALSE]

\* the row init_database inserts into an empty table
DefaultPrompt == [present |-> TRUE, user_id |-> Null, name |-> "default", is_active |-> TRUE]

\* a statement that clears is_active in every row
deactivate_all(table, user_id) ==
  [i \in DOMAIN table |-> [table[i] EXCEPT !.is_active = FALSE]]

\* UPDATE system_prompts SET is_active = 0 WHERE user_id = ?   (a user's scope)
\* UPDATE system_prompts SET is_active = 0 WHERE user_id IS NULL   (the defaults)
deactivate_scope(table, user_id) ==
  [i \in DOMAIN table |->
     IF table[i].present /\ table[i].user_id = user_id
     THEN [table[i] EXCEPT !.is_active = FALSE] ELSE table[i]]

\* the UNIQUE constraint on name: another row has the name
name_taken(table, name, prompt_id) ==
  \E i \in DOMAIN table : i # prompt_id /\ table[i].present /\ table[i].name = name

PromptCall(op, prompt_id, user_id, table, next_id) ==
  [op |-> op, prompt_id |-> prompt_id, user_id |-> user_id, table |-> table,
   next_id |-> next_id]

PromptInit ==
  /\ probe = PromptCall("init", 1, Null,
                        [i \in PromptIds |-> IF i = 1 THEN DefaultPrompt ELSE NoPrompt], 2)
  /\ now = 0
  /\ sessions = [s \in SessionIds |-> NoSession]
  /\ cache = [k \in CacheKeys |-> NoCacheRow]
  /\ task = [p \in Procs |-> IdleTask]
  /\ started = 0
  /\ workload = Workload({}, {}, 0, FALSE)
  /\ hist = [s \in SessionIds |-> NoHist]

\* PromptRepository.create(name, prompt, description, is_active, user_id)
PromptCreate(name, is_active, user_id) ==
  LET prompt_id == probe.next_id
      cleared == IF is_active THEN deactivate_scope(probe.table, user_id)
                 ELSE probe.table
      row == [present |-> TRUE, user_id |-> user_id, name |-> name,
              is_active |-> is_active]
  IN /\ probe.next_id <= MaxPrompts
     /\ probe' = IF name_taken(probe.table, name, prompt_id)
                 THEN PromptCall("create_failed", prompt_id, user_id, probe.table,
                                 probe.next_id + 1)
                 ELSE PromptCall("create", prompt_id, user_id,
                                 [cleared EXCEPT ![prompt_id] = row], probe.next_id + 1)
     /\ UNCHANGED <<now, sessions, cache, task, started, workload, hist>>

\* PromptRepository.update(prompt_id, name, prompt, description, is_active);
\* name = Null: no new name; has_active: is_active is not None
PromptUpdate(prompt_id, name, has_active, is_active) ==
  LET existing == probe.table[prompt_id]
      prompt_user_id == existing.user_id
      cleared == IF has_active /\ is_active
                 THEN deactivate_scope(probe.table, prompt_user_id)
                 ELSE probe.table
      updated == [cleared EXCEPT
                    ![prompt_id].name = IF name # Null THEN name ELSE @,
                    ![prompt_id].is_active = IF has_active THEN is_active ELSE @]
  IN /\ has_active \/ ~is_active
     /\ probe' = IF ~existing.present
                 THEN PromptCall("update_not_found", prompt_id, Null, probe.table,
                                 probe.next_id)
                 ELSE IF name # Null /\ name_taken(probe.table, name, prompt_id)
                 THEN PromptCall("update_failed", prompt_id, prompt_user_id, probe.table,
                                 probe.next_id)
                 ELSE PromptCall("update", prompt_id, prompt_user_id, updated,
                                 probe.next_id)
     /\ UNCHANGED <<now, sessions, cache, task, started, workload, hist>>

\* PromptRepository.delete(prompt_id)
PromptDelete(prompt_id) ==
  /\ probe' = PromptCall("delete", prompt_id, probe.table[prompt_id].user_id,
                         [probe.table EXCEPT ![prompt_id] = NoPrompt], probe.next_id)
  /\ UNCHANGED <<now, sessions, cache, task, started, workload, hist>>

\* PromptRepository.set_active(prompt_id, user_id): the scope is the one of
\* the row, the user_id argument is not used
PromptSetActive(prompt_id, user_id) ==
  LET row == probe.table[prompt_id]
      cleared == deactivate_scope(probe.table, row.user_id)
  IN /\ probe' = IF ~row.present
                 THEN PromptCall("set_active_not_found", prompt_id, Null, probe.table,
                                 probe.next_id)
                 ELSE PromptCall("set_active", prompt_id, row.user_id,
                                 [cleared EXCEPT ![prompt_id].is_active = TRUE],
                                 probe.next_id)
     /\ UNCHANGED <<now, sessions, cache, task, started, workload, hist>>

PromptNext ==
  \/ \E name \in PromptNames, is_active \in BOOLEAN, user_id \in UserIds :
       PromptCreate(name, is_active, user_id)
  \/ \E prompt_id \in PromptIds, name \in PromptNames \cup {Null},
        has_active \in BOOLEAN, is_active \in BOOLEAN :
       PromptUpdate(prompt_id, name, has_active, is_active)
  \/ \E prompt_id \in PromptIds : PromptDelete(prompt_id)
  \/ \E prompt_id \in PromptIds, user_id \in UserIds : PromptSetActive(prompt_id, user_id)

PromptSpec == PromptInit /\ [][PromptNext]_vars

(***************************************************************************)
(* MCPClient._call_mcp on its own: the normalization of the HTTP response  *)
(* of the upstream.  A response is its status code, the message of the     *)
(* top-level "error" object, result.isError, result.structuredContent and  *)
(* the texts of result.content (Null, NoneData: the key is absent).        *)
(***************************************************************************)
\* the data of an MCPToolResult: None, a JSON value, or {"text": raw}
NoneData == [kind |-> "none", text |-> Null]

JsonData(text) == [kind |-> "json", text |-> text]

TextData(raw) == [kind |-> "text", text |-> raw]

\* json.loads(text): the value of a JSON text; raises on any other text
JsonTexts == {"{price: 101}"}

json_loads(text) ==
  IF text \in JsonTexts THEN [ok |-> TRUE, value |-> JsonData("price 101")]
  ELSE [ok |-> FALSE, value |-> NoneData]

\* result.structuredContent of a response that has one
StructuredContent == JsonData("structured price 101")

HttpResponses ==
  [status : {200, 500},
   error : {Null, "Invalid params"},
   isError : BOOLEAN,
   structuredContent : {NoneData, StructuredContent},
   content : {<<>>, <<"{price: 101}">>, <<"symbol not found">>,
              <<"{price: 101}", "symbol not found">>}]

\* MCPToolResult of the client
ClientFailure(error) == [success |-> FALSE, data |-> NoneData, error |-> error]

ClientSuccess(data) == [success |-> TRUE, data |-> data, error |-> Null]

\* a normalization that looks at structuredContent before result.isError
call_mcp_structured_first(response) ==
  IF response.status # 200 THEN ClientFailure("MCP server returned status")
  ELSE IF response.error # Null THEN ClientFailure(response.error)
  ELSE IF response.structuredContent # NoneData
  THEN ClientSuccess(response.structuredContent)
  ELSE IF response.isError
  THEN ClientFailure(IF response.content # <<>> THEN response.content[1]
                     ELSE "Unknown error")
  ELSE IF response.content # <<>>
  THEN ClientSuccess(IF json_loads(response.content[1]).ok
                     THEN json_loads(response.content[1]).value
                     ELSE TextData(response.content[1]))
  ELSE ClientSuccess(NoneData)

\* MCPClient._call_mcp, from the HTTP response on
call_mcp(response) ==
  IF response.status # 200 THEN ClientFailure("MCP server returned status")
  ELSE IF response.error # Null THEN ClientFailure(response.error)
  ELSE IF response.isError
  THEN ClientFailure(IF response.content # <<>> THEN response.content[1]
                     ELSE "Unknown error")
  ELSE IF response.structuredContent # NoneData
  THEN ClientSuccess(response.structuredContent)
  ELSE IF response.content # <<>>
  THEN ClientSuccess(IF json_loads(response.content[1]).ok
                     THEN json_loads(response.content[1]).value
                     ELSE TextData(response.content[1]))
  ELSE ClientSuccess(NoneData)

\* the upstream has answered the POST
ClientCall(response) ==
  [op |-> "call", response |-> response, result |-> ClientFailure(Null)]

ClientInit ==
  /\ probe \in {ClientCall(r) : r \in HttpResponses}
  /\ now = 0
  /\ sessions = [s \in SessionIds |-> NoSession]
  /\ cache = [k \in CacheKeys |-> NoCacheRow]
  /\ task = [p \in Procs |-> IdleTask]
  /\ started = 0
  /\ workload = Workload({}, {}, 0, FALSE)
  /\ hist = [s \in SessionIds |-> NoHist]

\* _call_mcp returns its MCPToolResult
Normalize ==
  /\ probe.op = "call"
  /\ probe' = [probe EXCEPT !.op = "result", !.result = call_mcp(probe.response)]
  /\ UNCHANGED <<now, sessions, cache, task, started, workload, hist>>

ClientNext == Normalize

ClientSpec == ClientInit /\ [][ClientNext]_vars

(***************************************************************************)
(* Properties.                                                             *)
(***************************************************************************)
\* the task is inside increment_request_count on session s
Incrementing(p, s) ==
  task[p].session_id = s /\ task[p].pc \in {"inc_now", "inc_write"}

\* the task has a request in flight
InFlight(p) == task[p].pc \notin {"idle", "done"}

Min(a, b) == IF a < b THEN a ELSE b

\* C1: no lost increment.  When no increment_request_count call is in
\* progress on a session and all completed calls fell into the window the
\* session was created with, the stored request_count equals the number of
\* calls completed.
C1_NoLostIncrement ==
  \A s \in SessionIds :
    ( /\ sessions[s].present
      /\ ~hist[s].resets
      /\ \A p \in Procs : ~Incrementing(p, s) )
    => sessions[s].request_count = hist[s].calls

\* C2: no lost turn-context entry.  Once every request has completed, the
\* stored context of a session holds one entry per completed context update
\* (up to the 10 entries the truncation keeps).
C2_NoLostContextEntry ==
  \A s \in SessionIds :
    ( /\ sessions[s].present
      /\ \A p \in Procs : ~InFlight(p) )
    => Len(sessions[s].context) = Min(hist[s].turns, CONTEXT_KEEP + 1)

\* the request did nothing after the rate-limit check
NothingAfterGate(t) ==
  /\ t.parsed = NoParsed
  /\ t.cache_reads = 0
  /\ t.cache_writes = 0
  /\ t.upstream_calls = 0
  /\ t.context_writes = 0

\* C3: a request whose post-increment count is at most RATE_LIMIT_REQUESTS
\* (in particular equal to it) is interpreted and handled, and is not
\* answered RATE_LIMITED; a request whose post-increment count is greater is
\* answered RATE_LIMITED without interpreting the query, touching the cache,
\* calling upstream or writing the context; RATE_LIMITED is answered in no
\* other case.
C3_RateLimitBoundary ==
  \A p \in Procs :
    LET t == task[p] IN
    /\ (t.counted /\ t.count <= RATE_LIMIT_REQUESTS)
         => (t.parsed # NoParsed /\ t.response.code # "RATE_LIMITED")
    /\ (t.counted /\ t.count > RATE_LIMIT_REQUESTS)
         => (t.pc = "done" /\ t.response.code = "RATE_LIMITED" /\ NothingAfterGate(t))
    /\ t.response.code = "RATE_LIMITED"
         => (t.counted /\ t.count > RATE_LIMIT_REQUESTS)

\* C3 witness: the request after the one that reached the limit has been
\* answered RATE_LIMITED
C3_Witness ==
  \E p \in Procs :
    /\ task[p].pc = "done"
    /\ task[p].count = RATE_LIMIT_REQUESTS + 1
    /\ task[p].response.code = "RATE_LIMITED"

\* C4: stale fallback.  A request of intent price, quote, historical or
\* indicator whose upstream call failed and whose stale read found an expired
\* entry returns a success response with the stale marker, built from that
\* entry.
C4_StaleFallback ==
  \A p \in Procs :
    LET t == task[p] IN
    (t.pc \in {"update_context", "done"} /\ t.stale_entry)
      => /\ t.response.kind = "success"
         /\ t.response.stale_marker
         /\ t.response.data =
              format_data(handler_of(t.parsed), t.parsed, t.stale_row.response_data)

\* the request made no cache read, no cache write and no upstream call
NoCacheNoUpstream(t) ==
  /\ t.cache_reads = 0
  /\ t.cache_writes = 0
  /\ t.upstream_calls = 0

\* C5: a parsed query that lacks a required entity is answered with
\* NO_SYMBOL (no symbol, intents that need one), NO_INDICATOR
\* (indicator intent without indicator name) or MISSING_CURRENCIES
\* (conversion without source or target currency), and the request makes no
\* cache read, no cache write and no upstream call.
C5_MissingEntity ==
  \A p \in Procs :
    LET t == task[p]
        q == t.parsed
        code == t.response.code
    IN q # NoParsed =>
       /\ (q.intent \notin {"conversion", "commodities_list"} /\ q.symbols = <<>>)
            => (t.pc = "done" /\ code = "NO_SYMBOL" /\ NoCacheNoUpstream(t))
       /\ (q.intent = "indicator" /\ q.symbols # <<>> /\ q.indicator = Null)
            => (t.pc = "done" /\ code = "NO_INDICATOR" /\ NoCacheNoUpstream(t))
       /\ (q.intent = "conversion" /\ (q.from_currency = Null \/ q.to_currency = Null))
            => (t.pc = "done" /\ code = "MISSING_CURRENCIES" /\ NoCacheNoUpstream(t))
       /\ code \in {"NO_SYMBOL", "NO_INDICATOR", "MISSING_CURRENCIES"}
            => NoCacheNoUpstream(t)

\* C5 witness: a conversion with one currency has been answered
\* MISSING_CURRENCIES
C5_Witness ==
  \E p \in Procs :
    /\ task[p].pc = "done"
    /\ task[p].parsed.intent = "conversion"
    /\ task[p].parsed.to_currency = Null
    /\ task[p].response.code = "MISSING_CURRENCIES"

\* C6: a request whose second session read finds no row is answered
\* SESSION_NOT_FOUND, one whose second read finds an expired row
\* SESSION_EXPIRED; a request answered with either has not incremented the
\* request count, not written the session row and not called upstream.
C6_BadSession ==
  \A p \in Procs :
    LET t == task[p] IN
    /\ (t.raw_checked /\ ~t.raw_present) => t.response.code = "SESSION_NOT_FOUND"
    /\ (t.raw_checked /\ t.raw_present /\ t.raw_age >= SESSION_TIMEOUT_MINUTES)
         => t.response.code = "SESSION_EXPIRED"
    /\ t.response.code \in {"SESSION_NOT_FOUND", "SESSION_EXPIRED"}
         => /\ t.raw_checked
            /\ ~t.counted
            /\ t.session_writes = 0
            /\ t.context_writes = 0
            /\ t.upstream_calls = 0

\* C6 witness: a request on an expired row has been answered SESSION_EXPIRED
C6_Witness ==
  \E p \in Procs :
    /\ task[p].pc = "done"
    /\ task[p].raw_present
    /\ task[p].response.code = "SESSION_EXPIRED"
    /\ sessions[task[p].session_id].present

\* C7: once a session is expired it stays expired until its row is deleted:
\* no step makes an expired session non-expired.
C7_ExpiredNeverReused ==
  [][\A s \in SessionIds :
       (sessions[s].present /\ is_expired(sessions[s], now))
         => (~sessions'[s].present \/ is_expired(sessions'[s], now'))]_vars

\* process_chat has read the session and accepted it
Accepted(t) == t.pc \notin {"idle", "get", "get_raw"} /\ ~t.raw_checked

\* C8: a stored session read by process_chat is accepted exactly when it is
\* read earlier than last_activity + SESSION_TIMEOUT; read at exactly
\* last_activity + SESSION_TIMEOUT it is treated as expired.
C8_ExpiryBoundary ==
  \A p \in Procs :
    LET t == task[p] IN
    (t.pc \notin {"idle", "get"} /\ t.get_present)
      => (Accepted(t) <=> t.get_age < SESSION_TIMEOUT_MINUTES)

\* C8 witness: a session read at exactly last_activity + SESSION_TIMEOUT has
\* been refused
C8_Witness ==
  \E p \in Procs :
    /\ task[p].get_present
    /\ task[p].get_age = SESSION_TIMEOUT_MINUTES
    /\ task[p].raw_checked

\* C9 as claimed: the stored request_count never exceeds
\* RATE_LIMIT_REQUESTS + 1.
C9_CountAtMostLimitPlusOne ==
  \A s \in SessionIds : sessions[s].request_count <= RATE_LIMIT_REQUESTS + 1

\* C9 amended: the stored request_count is at most the number of
\* increment_request_count calls completed on the session (and is not capped
\* by the limit).
C9_CountAtMostCalls ==
  \A s \in SessionIds : sessions[s].request_count <= hist[s].calls

\* C9 witness: a stored request_count of RATE_LIMIT_REQUESTS + 2
C9_Witness ==
  \E s \in SessionIds : sessions[s].request_count = RATE_LIMIT_REQUESTS + 2

\* C10: the UPDATE of increment_request_count stores (1, now) when
\* now - window_start >= RATE_LIMIT_WINDOW for the window start it read, and
\* otherwise the count it read plus one with the window start unchanged; a
\* request whose increment runs at or after window_start + RATE_LIMIT_WINDOW
\* is not answered RATE_LIMITED.
C10_WindowReset ==
  [][\A p \in Procs :
       (task[p].pc = "inc_write" /\ task'[p].pc # "inc_write") =>
         LET t == task[p]
             s == t.session_id
             read == t.inc_session
             over == t.inc_now - read.request_window_start >= RATE_LIMIT_WINDOW_SECONDS
         IN /\ sessions[s].present =>
                 /\ sessions'[s].request_count =
                      (IF over THEN 1 ELSE read.request_count + 1)
                 /\ sessions'[s].request_window_start =
                      (IF over THEN t.inc_now ELSE read.request_window_start)
            /\ over => task'[p].response.code # "RATE_LIMITED"]_vars

\* C10 witness: on a session that has answered RATE_LIMITED, a request whose
\* increment reset the window to count 1 has been served
C10_Witness ==
  \E p \in Procs, s \in SessionIds :
    /\ task[p].session_id = s
    /\ hist[s].limited
    /\ task[p].pc = "done"
    /\ task[p].inc_reset
    /\ task[p].count = 1
    /\ task[p].response.kind = "success"

\* C11: every increment_request_count call returns seconds_until_reset
\* within [0, RATE_LIMIT_WINDOW], equal to RATE_LIMIT_WINDOW minus the time
\* from the window start the call leaves stored to the call's now, hence
\* equal to RATE_LIMIT_WINDOW when the call reset the window.
C11_SecondsUntilReset ==
  [][\A p \in Procs :
       (task[p].pc = "inc_write" /\ task'[p].pc # "inc_write") =>
         LET t == task[p]
             s == t.session_id
             returned == task'[p].seconds_until_reset
         IN /\ returned \in 0..RATE_LIMIT_WINDOW_SECONDS
            /\ sessions[s].present =>
                 returned = RATE_LIMIT_WINDOW_SECONDS
                              - (t.inc_now - sessions'[s].request_window_start)
            /\ t.inc_reset => returned = RATE_LIMIT_WINDOW_SECONDS]_vars

\* C11 witness: a call that did not reset the window has returned one second
\* less than the full window
C11_Witness ==
  \E p \in Procs :
    /\ task[p].counted
    /\ ~task[p].inc_reset
    /\ task[p].session_writes > 0
    /\ task[p].seconds_until_reset = RATE_LIMIT_WINDOW_SECONDS - 1

\* C12: the stored request_window_start of a session never moves backward.
C12_WindowStartMonotone ==
  [][\A s \in SessionIds :
       (sessions[s].present /\ sessions'[s].present)
         => sessions'[s].request_window_start >= sessions[s].request_window_start]_vars

\* the entry is fresh at clock value t: t < created_at + ttl
Fresh(row, t) == t < row.created_at + row.ttl_seconds

\* C13: whenever a handler reads an existing entry with allow_stale=True,
\* cache.get returns its payload with the stale annotation and the entry's
\* created_at exactly when the entry is not fresh (now >= created_at + ttl),
\* and without annotation exactly when it is fresh.
C13_StaleAnnotation ==
  \A p \in Procs :
    task[p].pc = "stale_get" =>
      LET row == cache[cache_key(task[p].parsed)]
          cached == cache_get(row, TRUE, now)
      IN row.present =>
           /\ cached.hit
           /\ cached.data = row.response_data
           /\ cached.stale <=> ~Fresh(row, now)
           /\ cached.stale => cached.cached_at = row.created_at

\* C14: when a handler reads, with allow_stale=False, an entry whose age
\* exceeds its ttl, cache.get is a miss and the handler does not answer from
\* the entry: it goes on to the upstream call.
C14_NoStaleAsFresh ==
  [][\A p \in Procs :
       (task[p].pc = "cache_get" /\ task'[p].pc # "cache_get") =>
         LET row == cache[cache_key(task[p].parsed)] IN
         (row.present /\ now - row.created_at > row.ttl_seconds)
           => /\ ~cache_get(row, FALSE, now).hit
              /\ task'[p].pc = "mcp"
              /\ task'[p].response = NoResponse]_vars

\* C14 witness: a request has gone upstream although an entry older than its
\* ttl is stored under its key
C14_Witness ==
  \E p \in Procs :
    /\ task[p].pc = "mcp"
    /\ task[p].cache_reads = 1
    /\ LET row == cache[cache_key(task[p].parsed)] IN
       row.present /\ now - row.created_at > row.ttl_seconds

AfterUpstream(t) ==
  /\ t.parsed # NoParsed
  /\ t.pc \in {"update_context", "done"}
  /\ t.upstream_calls = 1

\* the response is MCP_ERROR carrying the message of the failed upstream call
McpErrorWithMessage(t) ==
  /\ t.response.kind = "error"
  /\ t.response.code = "MCP_ERROR"
  /\ t.upstream_error # Null
  /\ t.response.message = t.upstream_error

UpstreamOutcome(t) ==
  LET handler == handler_of(t.parsed) IN
  AfterUpstream(t) =>
    /\ handler \in {"price", "quote", "historical", "indicator"} =>
         /\ t.upstream_ok => t.cache_writes = 1
         /\ (~t.upstream_ok /\ ~t.stale_row.present) => McpErrorWithMessage(t)
    /\ handler = "commodities_list" =>
         /\ t.upstream_ok => t.cache_writes = 1
         /\ (~t.upstream_ok /\ ~t.stale_row.present) =>
              /\ t.response.kind = "success"
              /\ ~t.response.stale_marker
              /\ t.response.data.values = KNOWN_COMMODITIES.values
    /\ handler = "conversion" =>
         /\ t.cache_reads = 0
         /\ t.cache_writes = 0
         /\ ~t.upstream_ok => McpErrorWithMessage(t)

SameDict(p, q) == {p[i] : i \in 1..Len(p)} = {q[i] : i \in 1..Len(q)}

\* C17: a set(t, p, v) leaves every slot of another type or other params as
\* it was, and a get(t, p', allow_stale=False) that follows the last set
\* set(t, p, v) before its TTL has elapsed returns v for every p' holding the
\* items of p in whatever key order.
C17_KeyDeterminism ==
  [][/\ probe'.op = "set" /\ probe'.calls # probe.calls =>
          \A ty \in RepoTypes, pa \in RepoParams :
             IF ty = probe'.query_type /\ SameDict(pa, probe'.params)
             THEN LET cached == cache_get(cache'[generate_cache_key(ty, pa)], FALSE, now')
                  IN cached.hit /\ cached.data = probe'.set_data
             ELSE cache'[generate_cache_key(ty, pa)] = cache[generate_cache_key(ty, pa)]
     /\ ( /\ probe'.op = "get" /\ probe'.calls # probe.calls
          /\ ~probe'.allow_stale
          /\ probe.set_type = probe'.query_type
          /\ SameDict(probe.set_params, probe'.params)
          /\ now < probe.set_at + get_ttl(probe.set_type) )
          => /\ probe'.result.hit
             /\ probe'.result.data = probe.set_data
             /\ ~probe'.result.stale]_vars

\* C17 witness: a get with the items in another key order than the set
\* before it has returned the payload that was set
C17_Witness ==
  /\ probe.op = "get"
  /\ probe.set_type = probe.query_type
  /\ probe.set_params # probe.params
  /\ SameDict(probe.set_params, probe.params)
  /\ probe.result.hit
  /\ probe.result.data = probe.set_data

\* C18: cache writes replace on key collision and the last writer wins:
\* every cache.set of a handler leaves, under the request's key, exactly the
\* row of that set (its payload, its ttl, created_at = the time of the set),
\* whatever row was stored before, and a row changes in no other way.
C18_LastWriterWins ==
  [][/\ DOMAIN cache' = DOMAIN cache
     /\ \A p \in Procs :
          (task[p].pc = "cache_set" /\ task'[p].pc # "cache_set") =>
            cache'[cache_key(task[p].parsed)] =
              [present |-> TRUE, response_data |-> task[p].result.data,
               created_at |-> now,
               ttl_seconds |-> get_ttl(cache_type(handler_of(task[p].parsed)))]
     /\ \A k \in CacheKeys :
          cache'[k] # cache[k] =>
            \E p \in Procs : /\ task[p].pc = "cache_set"
                             /\ task'[p].pc # "cache_set"
                             /\ cache_key(task[p].parsed) = k]_vars

\* C18 witness: two requests missed on the same key and both wrote it; the
\* one that wrote "N/A" has ended, the one that wrote "101" has just
\* written, and the row holds "101"
C18_Witness ==
  \E p, q \in Procs :
    /\ p # q
    /\ task[p].cache_writes = 1 /\ task[q].cache_writes = 1
    /\ cache_key(task[p].parsed) = cache_key(task[q].parsed)
    /\ task[q].pc = "done" /\ task[q].response.code = "PROCESSING_ERROR"
    /\ task[p].pc = "update_context" /\ task[p].response.kind = "success"
    /\ cache[cache_key(task[p].parsed)].response_data = Payload("101")

\* the TTL setting of each query type
ConfiguredTtl(query_type) ==
  CASE query_type = "historical" -> CACHE_TTL_HISTORICAL
    [] query_type = "indicator" -> CACHE_TTL_INDICATOR
    [] OTHER -> CACHE_TTL_PRICE

\* C19: every stored cache row carries the TTL setting of its query type:
\* CACHE_TTL_HISTORICAL for historical, CACHE_TTL_INDICATOR for indicator,
\* CACHE_TTL_PRICE for price, quote and every other type.
C19_TtlByType ==
  \A k \in CacheKeys :
    cache[k].present => cache[k].ttl_seconds = ConfiguredTtl(k[1])

\* C20: a request whose increment_request_count call failed ends with an
\* error response, without interpreting the query and without calling
\* upstream.
C20_FailedIncrementSurfaces ==
  \A p \in Procs :
    task[p].inc_failed =>
      /\ task[p].parsed = NoParsed
      /\ task[p].upstream_calls = 0
      /\ task[p].response.kind # "success"
      /\ task[p].pc = "done" => task[p].response.kind = "error"

\* the upstream call of the request has failed
UpstreamFailed(t) == t.upstream_calls >= 1 /\ ~t.upstream_ok

C22_ContextBound ==
  /\ [](\A s \in SessionIds : Len(sessions[s].context) <= 10)
  /\ [][\A p \in Procs :
          ( /\ task[p].pc = "update_context"
            /\ task'[p].pc # "update_context"
            /\ sessions[task[p].session_id].present ) =>
            LET read == task[p].session.context
                kept == IF Len(read) < 9 THEN Len(read) ELSE 9
                stored == sessions'[task[p].session_id].context
            IN /\ Len(stored) = kept + 1
               /\ \A i \in 1..kept : stored[i] = read[Len(read) - kept + i]
               /\ stored[kept + 1] = context_entry(task[p].parsed)]_vars

\* C22 witness: a session that had recorded 9 turns has recorded three
\* more: it holds 10 entries, the oldest of them the third of the turns it
\* had and the newest the turn of the request that has just returned
C22_Witness ==
  \E p \in Procs, s \in SessionIds :
    /\ task[p].session_id = s
    /\ task[p].pc = "done"
    /\ task[p].context_writes = 1
    /\ Len(sessions[s].context) = 10
    /\ sessions[s].context[1] = PriorTurn(3)
    /\ sessions[s].context[10] = context_entry(task[p].parsed)

C24_QuotaBeforeInterpretation ==
  \A p \in Procs :
    LET t == task[p] IN
    /\ t.parsed # NoParsed => t.counted
    /\ (t.pc = "done" /\ Accepted(t)) => t.counted

\* C25: follow-up resolution.  A query with symbols of its own keeps them.
\* A query without, parsed with a context: when it matches a follow-up
\* pattern and some entry has a non-empty symbols list, the parsed symbols
\* are those of the newest such entry; when it matches no follow-up pattern
\* or no entry has symbols, the parsed symbols are empty.
C25_FollowUpResolution ==
  probe.op = "parse" =>
    LET q == probe.query
        context == probe.context
        symbols == probe.parsed.symbols
        with_symbols == {i \in 1..Len(context) : context[i].symbols # <<>>}
        newest == CHOOSE i \in with_symbols : \A j \in with_symbols : j <= i
    IN /\ q.symbols # <<>> => symbols = q.symbols
       /\ (q.symbols = <<>> /\ q.followup /\ with_symbols # {})
            => symbols = context[newest].symbols
       /\ (q.symbols = <<>> /\ (~q.followup \/ with_symbols = {}))
            => symbols = <<>>

\* C25 witness: a follow-up query without symbol, parsed with a context
\* whose newest entry has no symbols, has taken the symbols of the entry
\* before it
C25_Witness ==
  /\ probe.op = "parse"
  /\ probe.query.symbols = <<>>
  /\ probe.query.followup
  /\ probe.context = << InterpTurn(<<"MSFT">>), InterpTurn(<<>>) >>
  /\ probe.parsed.symbols = <<"MSFT">>

\* the classes of _detect_intent in the order the claim gives
IntentOrder ==
  <<"commodities_list", "conversion", "indicator", "historical", "quote", "comparison">>

\* a phrase of the class (or, for historical, the last-N pattern) occurs in q
Occurs(q, class) ==
  CASE class = "commodities_list" -> q.commodities
    [] class = "conversion" -> q.conversion
    [] class = "indicator" -> q.indicator # Null
    [] class = "historical" -> q.historical \/ q.last_n
    [] class = "quote" -> q.quote
    [] class = "comparison" -> q.comparison

\* C30: the intent parse returns is the first class, in the order
\* commodities_list, conversion, indicator, historical, quote, comparison,
\* one of whose phrases (for historical also the last-N pattern) occurs in
\* the query, and price when none occurs.
C30_FirstMatchWins ==
  probe.op = "parse" =>
    LET q == probe.query
        matching == {i \in 1..Len(IntentOrder) : Occurs(q, IntentOrder[i])}
        first == CHOOSE i \in matching : \A j \in matching : i <= j
    IN probe.parsed.intent = (IF matching = {} THEN "price" ELSE IntentOrder[first])

\* C30 witness: a query in which the last-N pattern, a quote phrase and a
\* comparison phrase occur has been classified historical
C30_Witness ==
  /\ probe.op = "parse"
  /\ ~probe.query.historical
  /\ probe.query.last_n
  /\ probe.query.quote
  /\ probe.query.comparison
  /\ probe.parsed.intent = "historical"

\* C26: numeric fields are coerced safely.  No price or quote request fails
\* on the payload it formats, whether the payload comes from the upstream
\* or from the cache: none ends with PROCESSING_ERROR (a field that cannot
\* be parsed would be null in a success response instead).
C26_SafeCoercion ==
  \A p \in Procs :
    LET t == task[p] IN
    (t.parsed # NoParsed /\ handler_of(t.parsed) \in {"price", "quote"})
      => t.response.code # "PROCESSING_ERROR"

\* C27: every RATE_LIMITED envelope process_chat returns has the fields
\* retry_after_seconds, equal to the seconds_until_reset the increment
\* returned and within [0, RATE_LIMIT_WINDOW], requests_made, the
\* post-increment count, and requests_limit, RATE_LIMIT_REQUESTS.
C27_RateLimitFields ==
  \A p \in Procs :
    LET t == task[p]
        r == t.response
    IN r.code = "RATE_LIMITED" =>
         /\ r.retry_after_seconds # Null
         /\ r.requests_made # Null
         /\ r.requests_limit # Null
         /\ r.retry_after_seconds = t.seconds_until_reset
         /\ r.retry_after_seconds \in 0..RATE_LIMIT_WINDOW_SECONDS
         /\ r.requests_made = t.count
         /\ r.requests_limit = RATE_LIMIT_REQUESTS

\* C28: a session is created with created_at, last_activity and
\* request_window_start all equal to the time of creation, request_count 0
\* and an empty context; no later step changes created_at; and in every
\* state last_activity >= created_at for every stored session.
C28_SessionCreation ==
  /\ [](\A s \in SessionIds :
          sessions[s].present => sessions[s].last_activity >= sessions[s].created_at)
  /\ [][\A s \in SessionIds :
          /\ (~sessions[s].present /\ sessions'[s].present) =>
               /\ sessions'[s].created_at = now
               /\ sessions'[s].last_activity = now
               /\ sessions'[s].request_window_start = now
               /\ sessions'[s].request_count = 0
               /\ sessions'[s].context = <<>>
          /\ (sessions[s].present /\ sessions'[s].present) =>
               sessions'[s].created_at = sessions[s].created_at]_vars

\* C28 witness: a session created after the clock's origin has served a
\* request later on: it holds a turn and its last_activity is past its
\* created_at
C28_Witness ==
  \E s \in SessionIds :
    /\ sessions[s].present
    /\ sessions[s].created_at = 1
    /\ sessions[s].last_activity = 2
    /\ sessions[s].request_count = 1
    /\ Len(sessions[s].context) = 1

\* C29: a janitor running on the fixed clean-up interval deletes expired
\* sessions and stale cache rows without any client action.  In its finite
\* form: no session is stored longer than one clean-up interval past the
\* instant it expired, and no cache row longer than one clean-up interval
\* past the instant it became stale.
C29_JanitorSweeps ==
  /\ \A s \in SessionIds :
       sessions[s].present =>
         now - (sessions[s].last_activity + SESSION_TIMEOUT_MINUTES)
           <= SESSION_CLEANUP_INTERVAL_MINUTES
  /\ \A k \in CacheKeys :
       cache[k].present =>
         now - (cache[k].created_at + cache[k].ttl_seconds)
           <= SESSION_CLEANUP_INTERVAL_MINUTES

\* C31: symbol extraction accumulates the unique matches of the phases in
\* the order metals, crypto, company names, known forex pairs, known
\* tickers, explicit pairs, and takes the fallback ticker only when none of
\* these phases has found a symbol; so the symbols of a text with an
\* explicit pair hold no fallback ticker, and when the pair is all those
\* phases find, the pair is the first symbol.
C31_FallbackLast ==
  probe.op = "symbols" =>
    LET text == probe.text
        symbols == probe.symbols
        IsTicker(w) == w \in COMMON_STOCKS /\ w \notin EXCLUDED_WORDS
        NotExcluded(w) == w \notin EXCLUDED_WORDS
        found == append_unique(
                   append_unique(
                     append_unique(
                       append_unique(
                         append_unique(append_unique(<<>>, text.metals), text.crypto),
                         text.names),
                       text.forex),
                     SelectSeq(text.words, IsTicker)),
                   text.pairs)
        candidates == SelectSeq(text.words, NotExcluded)
    IN /\ found # <<>> => symbols = found
       /\ (found = <<>> /\ text.financial_intent /\ candidates # <<>>)
            => symbols = <<candidates[1]>>
       /\ (found = <<>> /\ ~(text.financial_intent /\ candidates # <<>>))
            => symbols = <<>>
       /\ (text.pairs # <<>> /\ found = text.pairs) => symbols[1] = text.pairs[1]

\* C32: the normalization is a decision list.  A status other than 200
\* gives failure; otherwise a top-level error gives failure; otherwise
\* result.isError gives failure, whatever structuredContent and content
\* hold; otherwise structuredContent, when present, is the data, whatever
\* content holds; otherwise a non-empty content gives the parsed
\* content[0].text, or {"text": raw} when it does not parse; otherwise the
\* call succeeds with null data.
C32_NormalizationOrder ==
  probe.op = "result" =>
    LET r == probe.response
        out == probe.result
        first == r.content[1]
        ok1 == r.status = 200
        ok2 == ok1 /\ r.error = Null
        ok3 == ok2 /\ ~r.isError
    IN /\ ~ok1 => ~out.success
       /\ (ok1 /\ r.error # Null) => (~out.success /\ out.error = r.error)
       /\ (ok2 /\ r.isError) =>
            /\ ~out.success
            /\ out.error = (IF r.content = <<>> THEN "Unknown error" ELSE first)
       /\ (ok3 /\ r.structuredContent # NoneData) =>
            (out.success /\ out.data = r.structuredContent)
       /\ (ok3 /\ r.structuredContent = NoneData /\ r.content # <<>>) =>
            /\ out.success
            /\ first \in JsonTexts => out.data = JsonData("price 101")
            /\ first \notin JsonTexts => out.data = [kind |-> "text", text |-> first]
       /\ (ok3 /\ r.structuredContent = NoneData /\ r.content = <<>>) =>
            (out.success /\ out.data.kind = "none")
       /\ out.success <=> ok3

\* C32 witness: a response with status 200 and no top-level error whose
\* result has isError true, a structuredContent and a content has been
\* normalized to a failure carrying content[0].text
C32_Witness ==
  /\ probe.op = "result"
  /\ probe.response.status = 200
  /\ probe.response.error = Null
  /\ probe.response.isError
  /\ probe.response.structuredContent # NoneData
  /\ probe.response.content = <<"symbol not found">>
  /\ ~probe.result.success
  /\ probe.result.error = "symbol not found"

C34_OutputsizeRange ==
  probe.op = "outputsize" =>
    LET requested == IF probe.text.last_n # NoMatch THEN probe.text.last_n
                     ELSE probe.text.n_of
    IN /\ probe.outputsize \in 1..5000
       /\ requested > 5000 => probe.outputsize = 5000
       /\ requested \in {NoMatch, 0} => probe.outputsize = 30
       /\ requested \in 1..5000 => probe.outputsize = requested

\* a text asking for more than 5000 points has been parsed to 5000
C34_Witness ==
  /\ probe.op = "outputsize"
  /\ probe.text.last_n = NoMatch
  /\ probe.text.n_of > 5000
  /\ probe.outputsize = 5000

(***************************************************************************)
(* C35: two requests that map to the same cache slot (query type and      *)
(* cache_params) would send identical arguments upstream, so a fresh hit   *)
(* is what the upstream call of the current request would have fetched;    *)
(* in particular two indicator requests that share a slot have the same    *)
(* outputsize.                                                             *)
(***************************************************************************)
C35_SameSlotSameArguments ==
  (/\ probe.op = "handled"
   /\ probe.first_slot.query_type = probe.second_slot.query_type
   /\ probe.first_slot.key = probe.second_slot.key)
  => /\ probe.first_slot.call = probe.second_slot.call
     /\ probe.first_slot.parsed.intent = "indicator" =>
          probe.first_slot.parsed.outputsize = probe.second_slot.parsed.outputsize

(***************************************************************************)
(* C36: a request that ends in a PROCESSING_ERROR envelope leaves the     *)
(* cache unchanged (it has written no row), and a payload the formatter    *)
(* of its query type cannot format is never stored.                        *)
(***************************************************************************)
C36_ProcessingErrorKeepsCache ==
  /\ \A p \in Procs :
       (task[p].pc = "done" /\ task[p].response.code = "PROCESSING_ERROR")
         => task[p].cache_writes = 0
  /\ \A k \in CacheKeys :
       cache[k].present => ~format_raises(k[1], cache[k].response_data)

(***************************************************************************)
(* C37: under any interleaving with other requests on the same session,   *)
(* process_chat returns SESSION_NOT_FOUND only if the session row was      *)
(* absent from the store at some point during the call.  A session id is   *)
(* never created twice, so a row that is present at both reads of the      *)
(* session check was present throughout it.                                *)
(***************************************************************************)
C37_NotFoundOnlyIfAbsent ==
  \A p \in Procs :
    (task[p].pc = "done" /\ task[p].response.code = "SESSION_NOT_FOUND")
      => (~task[p].get_present \/ ~task[p].raw_present)

(***************************************************************************)
(* C38: the stale annotations (_stale, _cached_at) exist only on the copy *)
(* a stale read returns: no stored cache row contains them, and no write   *)
(* of a handler stores a payload that has them.                            *)
(***************************************************************************)
C38_AnnotationsOnlyOnCopy ==
  /\ [](\A k \in CacheKeys :
          cache[k].present =>
            ~cache[k].response_data.stale /\ cache[k].response_data.cached_at = 0)
  /\ [][\A k \in CacheKeys :
          (cache'[k] # cache[k] /\ cache'[k].present) =>
            ~cache'[k].response_data.stale]_vars

\* C38 witness: a stale read has returned an annotated copy of an entry, the
\* handler has answered from it, and the stored row has no annotation
C38_Witness ==
  \E p \in Procs :
    /\ task[p].pc \in {"update_context", "done"}
    /\ task[p].stale_entry
    /\ task[p].response.stale_marker
    /\ LET returned == returned_dict(cache_get(task[p].stale_row, TRUE, now)) IN
         /\ returned.stale
         /\ returned.cached_at = task[p].stale_row.created_at
         /\ cache[cache_key(task[p].parsed)] = task[p].stale_row
         /\ ~cache[cache_key(task[p].parsed)].response_data.stale

\* the active prompts of a scope
ActiveIn(table, user_id) ==
  {i \in PromptIds : table[i].present /\ table[i].user_id = user_id /\ table[i].is_active}

=============================================================================
